---- MODULE Spec2Model ----
(***************************************************************************)
(* Model of the `submodule` command family of asoo-cli:                    *)
(*   src/src/submodule/commands.py    SubmoduleCommands   (driver)         *)
(*   src/src/submodule/operations.py  SubmoduleOperations (reconciler)     *)
(*   src/src/submodule/config.py      SubmoduleConfig     (manifest store) *)
(* One run of the tool is: load the manifest and its hidden copy, remove   *)
(* the working copies of the entries that are only in the hidden copy, run *)
(* the command (add | update | rm), save the hidden copy.                  *)
(***************************************************************************)
EXTENDS Integers, Sequences, FiniteSets, TLC

\* ------------------------------------------------------------------ bounds
\* Longest manifest file the tool is started on.
MaxRepos == 2
\* Runs of the tool in one behaviour of SpecRuns.
MaxRuns == 2

\* ------------------------------------------------------------------ values
\* Python's None; str(None) is the text 'None', which is what reaches git.
None == "None"
Paths == {"p1", "p2"}
\* Another spelling of the path p1.
AliasPath == "./p1"
Commits == {"c1", "c2"}
\* The commit the remote branch points to when the tool runs.
RemoteTips == {"c2"}
Url == "u1"
\* The url a descriptor had when its working copy was cloned, before the
\* user changed it in the manifest.
OldUrl == "u0"
Branch == "b1"
\* A branch name that the remote does not have.
OtherBranch == "b2"
\* A placeholder whose variable is defined in the environment, and one whose
\* variable is not.
PlaceholderSet == "${U}"
PlaceholderUnset == "${V}"

Descriptor(p, u, c) ==
    [path |-> p, url |-> u, branch |-> Branch, commit |-> c, depth |-> 1]

\* Descriptors a hand-written manifest may hold: complete and pinned ones, one
\* that is not pinned, one without url, one without path, one whose url is a
\* placeholder, and one whose branch is not a branch of the remote.
InitDescriptors ==
    {Descriptor(p, Url, "c1") : p \in Paths}
        \cup {Descriptor("p2", Url, None)}
        \cup {Descriptor("p1", None, "c1")}
        \cup {Descriptor(None, Url, "c1")}
        \cup {Descriptor("p1", PlaceholderSet, "c1")}
        \cup {[Descriptor("p1", Url, "c1") EXCEPT !.branch = OtherBranch]}

\* A list of paths that is always empty.
PathsOf_none(repos) == {}

PathsOf(repos) == {repos[i].path : i \in 1..Len(repos)}

UniquePaths(repos) ==
    \A i, j \in 1..Len(repos) : i # j => repos[i].path # repos[j].path

SeqsUpTo(S, n) == UNION {[1..k -> S] : k \in 0..n}

InitManifests == {m \in SeqsUpTo(InitDescriptors, MaxRepos) : UniquePaths(m)}

\* A manifest or shadow file on disk: the text of a mapping with the key
\* `repositories`, no file, a file that is not YAML, an empty document or an
\* empty mapping (yaml.safe_load gives None or {}), or a mapping that has
\* other keys but not `repositories`.
File(repos) == [kind |-> "ok", repos |-> repos]
NoFile == [kind |-> "missing", repos |-> <<>>]
CorruptFile == [kind |-> "corrupt", repos |-> <<>>]
EmptyFile == [kind |-> "empty", repos |-> <<>>]
NoKeyFile == [kind |-> "nokey", repos |-> <<>>]

\* ------------------------------------------------------------ working copy
\* st: Absent (no directory), Untracked (directory without .git), Tracked
\* (directory with .git). head: HEAD of the repository (None: unborn or no
\* repository). origin: url of the remote `origin` (None: no remote).
WC(st, head, origin) == [st |-> st, head |-> head, origin |-> origin]

AbsentWC == WC("Absent", None, None)
UntrackedWC == WC("Untracked", None, None)

InitWCs == {AbsentWC, UntrackedWC, WC("Tracked", "c1", Url)}

\* A working copy that was cloned from the url the descriptor had before.
OldOriginWC == WC("Tracked", "c1", OldUrl)

_exist_repo(w) == w.st # "Absent"

_has_git(w) == _exist_repo(w) /\ w.st = "Tracked"

\* ------------------------------------------------------------- git adapter
\* The state threaded through one operation: the working copy, the events
\* issued so far, the number of git commands run, whether an exception is
\* propagating, and the value the operation returns.
\* x is the environment of the operation: x.failAt is the ordinal of the git
\* command that fails for an outside reason (0: none), x.tip the commit the
\* remote branch points to, x.resp the answer typed at the prompt, x.at the
\* position of the descriptor in the batch (0: the removal step).
G0(w) == [w |-> w, log |-> <<>>, n |-> 0, raised |-> FALSE, out |-> None]

\* fault: the step failed for a reason outside the program and the
\* repository (the network, the file system).
Event(op, arg, ok, at) ==
    [op |-> op, arg |-> arg, ok |-> ok, at |-> at, fault |-> FALSE]

GitOps == {"init", "remote add", "checkout -b", "clone", "fetch", "reset",
           "clean", "rev-parse"}

OriginRef(branch) == "origin/" \o branch

\* Whether git itself accepts the command in working copy w.
GitAccepts(w, op, arg) ==
    CASE op = "fetch" -> w.origin # None /\ arg \in Commits \cup {Branch}
      [] op = "rev-parse" -> w.head # None
      [] op = "clone" -> arg # None
      [] OTHER -> TRUE

GitEffect(w, op, arg, tip) ==
    CASE op = "init" -> WC("Tracked", None, None)
      [] op = "remote add" -> [w EXCEPT !.origin = arg]
      [] op = "clone" -> WC("Tracked", tip, arg)
      [] op = "reset" -> [w EXCEPT !.head = IF arg \in Commits THEN arg
                                            ELSE IF arg = Branch THEN @
                                            ELSE tip]
      [] OTHER -> w

\* subprocess.run(["git"] + command, check=True): a non-zero exit raises.
_run_git_command(g, op, arg, x) ==
    IF g.raised THEN g
    ELSE LET k == g.n + 1
             ok == k # x.failAt /\ GitAccepts(g.w, op, arg)
         IN [w |-> IF ok THEN GitEffect(g.w, op, arg, x.tip) ELSE g.w,
             log |-> Append(g.log, [Event(op, arg, ok, x.at)
                                       EXCEPT !.fault = (k = x.failAt)]),
             n |-> k,
             raised |-> ~ok,
             out |-> IF ok /\ op = "rev-parse" THEN g.w.head ELSE g.out]

\* A pin that resets before it fetches.
_fetch_and_reset_swapped(g, fetch_resource, reset_resource, x) ==
    _run_git_command(
        _run_git_command(
            _run_git_command(g, "reset", reset_resource, x),
            "fetch", fetch_resource, x),
        "clean", "-ffd", x)

_fetch_and_reset(g, fetch_resource, reset_resource, x) ==
    _run_git_command(
        _run_git_command(
            _run_git_command(g, "fetch", fetch_resource, x),
            "reset", reset_resource, x),
        "clean", "-ffd", x)

\* git clone [--branch <branch>] <url> <path>: with a branch that the remote
\* does not have git exits with an error.
_clone(g, repo_url, branch, x) ==
    IF g.raised THEN g
    ELSE IF branch \in {None, Branch}
    THEN _run_git_command(g, "clone", repo_url, x)
    ELSE [g EXCEPT !.log = Append(@, [Event("clone", repo_url, FALSE, x.at)
                                         EXCEPT !.fault = (g.n + 1 = x.failAt)]),
                   !.n = g.n + 1,
                   !.raised = TRUE]

\* rev-parse HEAD; its own failure is caught and gives None.
_current_commit_hash(g, x) ==
    IF g.raised THEN g
    ELSE IF ~_has_git(g.w) THEN [g EXCEPT !.out = None]
    ELSE LET r == _run_git_command(g, "rev-parse", "HEAD", x)
         IN IF r.raised THEN [r EXCEPT !.raised = FALSE, !.out = None] ELSE r

\* A strip that leaves .git where it is.
_remove_git_kept(g, x) == g

\* shutil.rmtree(<path>/.git)
_remove_git(g, x) ==
    IF g.raised THEN g
    ELSE [g EXCEPT !.w = UntrackedWC,
                   !.log = Append(@, Event("remove .git", "", TRUE, x.at))]

\* A recreate that leaves a directory without .git as it is.
_recreate_git_skipped(g, url, branch, commit, x) == g

_recreate_git(g, url, branch, commit, x) ==
    IF _exist_repo(g.w) /\ ~_has_git(g.w)
    THEN _fetch_and_reset(
             _run_git_command(
                 _run_git_command(
                     _run_git_command(g, "init", "", x),
                     "remote add", url, x),
                 "checkout -b", branch, x),
             commit, commit, x)
    ELSE g

\* except Exception: log, return None
Caught(g) == IF g.raised THEN [g EXCEPT !.raised = FALSE, !.out = None] ELSE g

\* ------------------------------------------------------- SubmoduleOperations
\* Lines 99-100: the parent directory is made when it is missing (it is
\* there when the working copy is); os.makedirs raises OSError when it fails.
makedirs(g, repo_path, x) ==
    IF g.raised \/ _exist_repo(g.w) \/ ~x.mkfail THEN g
    ELSE [g EXCEPT !.raised = TRUE,
                   !.log = Append(@, [Event("makedirs", repo_path, FALSE, x.at)
                                         EXCEPT !.fault = TRUE])]

clone(g, repo_data, git_clean, x) ==
    IF repo_data.url = None \/ repo_data.path = None
    THEN [g EXCEPT !.out = None]
    ELSE LET r0 == _recreate_git(g, repo_data.url, repo_data.branch,
                                 repo_data.commit, x)
             r == makedirs(r0, repo_data.path, x)
             c == IF ~_exist_repo(r.w) THEN _clone(r, repo_data.url, repo_data.branch, x)
                  ELSE r
             p == IF repo_data.commit # None
                  THEN _fetch_and_reset(c, repo_data.commit, repo_data.commit, x)
                  ELSE c
             h == _current_commit_hash(p, x)
             e == IF git_clean THEN _remove_git(h, x) ELSE h
         IN IF r.raised THEN r ELSE Caught(e)

\* A prompt that the override flag turns on instead of off.
NeedsConfirmation_inverted(w, ignore_local_changes) ==
    _has_git(w) /\ ignore_local_changes

\* The condition of the prompt.
NeedsConfirmation(w, ignore_local_changes) ==
    _has_git(w) /\ ~ignore_local_changes

update(g, repo_data, remote, git_clean, ignore_local_changes, x) ==
    IF repo_data.path = None
    THEN \* os.path.join(path, None) raises TypeError
         [g EXCEPT !.raised = TRUE,
                   !.log = Append(@, Event("TypeError", None, FALSE, x.at))]
    ELSE LET ask == NeedsConfirmation(g.w, ignore_local_changes)
             a == IF ask
                  THEN [g EXCEPT !.log = Append(@, Event("prompt", x.resp, TRUE, x.at))]
                  ELSE g
             r == _recreate_git(a, repo_data.url, repo_data.branch,
                                repo_data.commit, x)
             f == IF remote
                  THEN _fetch_and_reset(r, repo_data.branch,
                                        OriginRef(repo_data.branch), x)
                  ELSE _fetch_and_reset(r, repo_data.commit, repo_data.commit, x)
             h == _current_commit_hash(f, x)
             e == IF git_clean THEN _remove_git(h, x) ELSE h
         IN IF ask /\ x.resp \notin {"y", "yes"} THEN [a EXCEPT !.out = None]
            ELSE IF r.raised THEN r
            ELSE IF ~_exist_repo(r.w) THEN clone(r, repo_data, git_clean, x)
            ELSE Caught(e)

\* A removal that does not look whether the directory is there: rmtree of a
\* missing directory raises FileNotFoundError.
rm_unguarded(g, repo_data, fails, at) ==
    IF repo_data.path = None
    THEN [g EXCEPT !.raised = TRUE,
                   !.log = Append(@, Event("rm", None, FALSE, at))]
    ELSE [g EXCEPT !.log = @ \o <<Event("rm", repo_data.path, TRUE, at),
                                 [Event("rmtree", repo_data.path,
                                        ~fails /\ _exist_repo(g.w), at)
                                      EXCEPT !.fault = fails]>>,
                   !.raised = fails \/ ~_exist_repo(g.w),
                   !.w = IF fails THEN @ ELSE AbsentWC]

\* fails: shutil.rmtree raises (permissions, a file in use).
rm(g, repo_data, fails, at) ==
    IF repo_data.path = None
    THEN [g EXCEPT !.raised = TRUE,
                   !.log = Append(@, Event("rm", None, FALSE, at))]
    ELSE IF ~_exist_repo(g.w)
    THEN [g EXCEPT !.log = Append(@, Event("rm", repo_data.path, TRUE, at))]
    ELSE [g EXCEPT !.log = @ \o <<Event("rm", repo_data.path, TRUE, at),
                                 [Event("rmtree", repo_data.path, ~fails, at)
                                      EXCEPT !.fault = fails]>>,
                   !.raised = fails,
                   !.w = IF fails THEN @ ELSE AbsentWC]

\* ----------------------------------------------------------- SubmoduleConfig
IndexOfPath(repos, path) ==
    IF \E i \in 1..Len(repos) : repos[i].path = path
    THEN CHOOSE i \in 1..Len(repos) :
             /\ repos[i].path = path
             /\ \A j \in 1..(i - 1) : repos[j].path # path
    ELSE 0

\* A lookup that ignores its filter and gives the first descriptor.
get_repositories_unfiltered(repos, path) == IF Len(repos) > 0 THEN 1 ELSE 0

\* get_repositories(path=...): the first descriptor with that path, as its
\* position in the list (the dict returned is the one in the list); 0 is None.
get_repositories(repos, path) == IndexOfPath(repos, path)

\* A list of all the descriptors, last to first.
get_repositories_list_reversed(repos) ==
    [i \in 1..Len(repos) |-> Len(repos) + 1 - i]

\* get_repositories() without a path: the list itself, as the positions of
\* its descriptors in the order of the list.
get_repositories_list(repos) == [i \in 1..Len(repos) |-> i]

\* An update of the commit that is lost.
update_repository_commit_lost(repos, repo_path, new_commit_hash) ==
    [repos |-> repos, ret |-> TRUE, raised |-> FALSE]

\* Lines 98-108, for data that has the key `repositories`: the first
\* descriptor with the path gets the commit and True is returned; when no
\* descriptor has the path, the warning of line 106 formats the name
\* `repo_name`, which is not defined: NameError.
update_repository_commit(repos, repo_path, new_commit_hash) ==
    IF IndexOfPath(repos, repo_path) = 0
    THEN [repos |-> repos, ret |-> FALSE, raised |-> TRUE]
    ELSE [repos |-> [repos EXCEPT
                        ![IndexOfPath(repos, repo_path)].commit = new_commit_hash],
          ret |-> TRUE, raised |-> FALSE]

add_repository(repos, path, url, branch, commit, depth) ==
    Append(repos, [path |-> path, url |-> url, branch |-> branch,
                   commit |-> commit, depth |-> depth])

SelectSeqNotPath(repos, path) ==
    LET keep(d) == d.path # path IN SelectSeq(repos, keep)

remove_repository(repos, path) == SelectSeqNotPath(repos, path)

\* A dump that writes the descriptors last to first.
save_config_reversed(repos) ==
    File([i \in 1..Len(repos) |-> repos[Len(repos) + 1 - i]])

\* yaml.safe_dump of config_data to the file at the given path: the strings
\* are written as they are in memory.
save_config(repos) == File(repos)

\* os.getenv: U is defined, every other name is not.
Getenv(name) == IF name = "U" THEN Url ELSE None

\* re.sub of ${NAME} in one string: the value of a defined variable, the
\* placeholder itself for an undefined one.
ResolveString(s) ==
    IF s = PlaceholderSet /\ Getenv("U") # None THEN Getenv("U")
    ELSE IF s = PlaceholderUnset /\ Getenv("V") # None THEN Getenv("V")
    ELSE s

_resolve_env_variables(repos) ==
    [i \in 1..Len(repos) |->
        [path |-> ResolveString(repos[i].path),
         url |-> ResolveString(repos[i].url),
         branch |-> ResolveString(repos[i].branch),
         commit |-> ResolveString(repos[i].commit),
         depth |-> repos[i].depth]]

\* A load that takes a file that is not YAML for one descriptor.
load_config_garbage(file) ==
    IF file.kind = "ok" THEN _resolve_env_variables(file.repos)
    ELSE <<Descriptor("p1", Url, "c1")>>

\* load_config followed by get_repositories: the descriptors of a file that
\* exists and parses, with the environment variables resolved; a missing
\* file and a file that is not YAML give no data, hence no descriptors.
load_config(file) ==
    IF file.kind = "ok" THEN _resolve_env_variables(file.repos) ELSE <<>>

\* A manifest that always counts as loaded.
Loaded_always(file) == TRUE

\* commands.load_config, lines 214 and 224: the file exists and load_config
\* returned data that is truthy (None and {} are not).
Loaded(file) == file.kind \in {"ok", "nokey"}

\* ------------------------------------------------------------------- state
VARIABLES
    manifestFile,   \* the manifest file on disk
    shadowFile,     \* the hidden copy of the manifest on disk
    wc,             \* the working copy at each path
    pc,             \* where the run is: idle, remove, command, update, finish, end
    term,           \* idle, running, ok (exit 0), sysexit (sys.exit(1)),
                    \* exception (uncaught, exit 1), killed
    args,           \* the parsed command line
    config,         \* self.config.config_data['repositories']
    hidden,         \* self.hidden_config.config_data['repositories']
    todo,           \* update: positions in config of the descriptors to update
    idx,            \* update: position in todo of the next descriptor
    res,            \* update: what operations.update returned for each one done
    ev,             \* the prompts, git commands and removals of the last step
    pre,            \* the working copy the last step of the command found
    startFile,      \* the manifest file as the run found it
    runs,           \* the number of this run
    prev            \* what the run before this one did: path, pinned, out
                    \* and stripped when it was an update of a converged
                    \* working copy or returned a commit with git_clean;
                    \* settled when it ended with exit code 0 and the
                    \* manifest file was left alone since; disturbed when
                    \* its last step had a failure or a declined prompt

vars == <<manifestFile, shadowFile, wc, pc, term, args, config, hidden, todo,
          idx, res, ev, pre, startFile, runs, prev>>

NoPrev ==
    [path |-> None, pinned |-> None, out |-> None, stripped |-> FALSE,
     settled |-> FALSE, disturbed |-> FALSE]

\* ------------------------------------------------------------ command line
\* gitmodules: the submodules that git.Repo gives for the directory of the
\* file named by --gitmodules. update_yaml and repository_names: the options
\* --update-yaml and --repository-names of the `git` command family.
NoArgs ==
    [command |-> "none", path |-> None, url |-> None, commit |-> None,
     remote |-> FALSE, git_clean |-> FALSE, ignore_local_changes |-> FALSE,
     gitmodules |-> <<>>, update_yaml |-> FALSE, repository_names |-> None]

AddArgs ==
    {[NoArgs EXCEPT !.command = "add", !.path = p, !.url = Url, !.commit = c,
                    !.git_clean = gc] :
        p \in Paths, c \in {None, "c1"}, gc \in BOOLEAN}

\* The override of the prompt is tried with the plain update.
UpdateArgs ==
    {[NoArgs EXCEPT !.command = "update", !.path = p, !.remote = r,
                    !.git_clean = gc, !.ignore_local_changes = FALSE] :
        p \in {None, "p1"}, r \in BOOLEAN, gc \in BOOLEAN}
      \cup {[NoArgs EXCEPT !.command = "update", !.path = p,
                             !.ignore_local_changes = TRUE] :
               p \in {None, "p1"}}

RmArgs == {[NoArgs EXCEPT !.command = "rm", !.path = p] : p \in Paths}

\* A submodule as GitPython gives it.
Submodule(p) ==
    [path |-> p, url |-> Url, branch_name |-> Branch, hexsha |-> "c1"]

\* What .gitmodules may declare.
Gitmodules ==
    {<<>>, <<Submodule("p1")>>, <<Submodule("p2"), Submodule("p1")>>}

GenerateArgs ==
    {[NoArgs EXCEPT !.command = "generate", !.gitmodules = m] :
        m \in Gitmodules}

\* The most git commands one operation issues: recreate (6), pin (3), rev-parse.
MaxGitCommands == 10

\* failAt: the git command of the step that fails from outside (0: none);
\* tip: where the remote branch is; resp: the answer to the prompt; mkfail:
\* the parent directory of the working copy is missing and os.makedirs fails.
\* os.makedirs is called only for a working copy that is not on disk, before
\* any git command and with no prompt: one environment with mkfail is enough.
Environments(at) ==
    {[failAt |-> f, tip |-> t, resp |-> r, at |-> at, mkfail |-> FALSE] :
        f \in 0..MaxGitCommands, t \in RemoteTips, r \in {"y", "n"}}
      \cup {[failAt |-> 0, tip |-> t, resp |-> "y", at |-> at, mkfail |-> TRUE] :
               t \in RemoteTips}

\* os.path.join(path, repo_path): the directory that a path string names.
Dir(repo_path) == IF repo_path = AliasPath THEN "p1" ELSE repo_path

WcAt(w, path) == IF Dir(path) \in Paths THEN w[Dir(path)] ELSE AbsentWC

PutWc(w, path, new) ==
    IF Dir(path) \in Paths THEN [w EXCEPT ![Dir(path)] = new] ELSE w

\* ------------------------------------------------------------------- Init
\* What an earlier run may have left as the hidden copy. AliasShadow is the
\* copy of a manifest that declared p1 under its other spelling.
AliasShadow == File(<<Descriptor(AliasPath, Url, "c1")>>)

InitShadows ==
    {NoFile, CorruptFile, AliasShadow,
     File(<<Descriptor("p1", Url, "c1"), Descriptor("p2", Url, "c1")>>)}

Init ==
    /\ manifestFile \in {File(m) : m \in InitManifests}
                          \cup {NoFile, CorruptFile, EmptyFile, NoKeyFile}
    /\ shadowFile \in InitShadows
    /\ wc \in [Paths -> InitWCs]
                \cup {[p \in Paths |-> IF p = "p1" THEN OldOriginWC ELSE AbsentWC]}
    /\ wc["p2"] # UntrackedWC
    /\ wc["p1"] = OldOriginWC => shadowFile = NoFile
    /\ shadowFile = CorruptFile => \A p \in Paths : _exist_repo(wc[p])
    /\ shadowFile = AliasShadow => _has_git(wc["p1"]) /\ ~_exist_repo(wc["p2"])
    /\ pc = "idle"
    /\ term = "idle"
    /\ args = NoArgs
    /\ config = <<>>
    /\ hidden = <<>>
    /\ todo = <<>>
    /\ idx = 1
    /\ res = <<>>
    /\ ev = <<>>
    /\ pre = AbsentWC
    /\ startFile = manifestFile
    /\ runs = 1
    /\ prev = NoPrev

\* ------------------------------------------------- remove_deleted_submodules
\* The loop over the hidden copy's descriptors, from position i on.
\* r = [w: the working copies, log, raised]; failing: the position whose
\* rmtree fails (0: none).
RECURSIVE RemoveLoop(_, _, _, _, _)
RemoveLoop(old_repositories, i, repositories, r, failing) ==
    IF i > Len(old_repositories) \/ r.raised THEN r
    ELSE LET repository == old_repositories[i]
         IN IF repository.path \in repositories
            THEN RemoveLoop(old_repositories, i + 1, repositories, r, failing)
            ELSE LET g == rm([G0(WcAt(r.w, repository.path)) EXCEPT !.log = r.log],
                             repository, i = failing, 0)
                 IN RemoveLoop(old_repositories, i + 1, repositories,
                               [w |-> PutWc(r.w, repository.path, g.w),
                                log |-> g.log, raised |-> g.raised],
                               failing)

\* A removal step that removes nothing.
remove_deleted_submodules_none(repos, old_repositories, w, failing) ==
    [w |-> w, log |-> <<>>, raised |-> FALSE]

remove_deleted_submodules(repos, old_repositories, w, failing) ==
    RemoveLoop(old_repositories, 1, PathsOf(repos),
               [w |-> w, log |-> <<>>, raised |-> FALSE], failing)

\* handle_submodule_operation up to the call of the command: the command line
\* is parsed, both files are loaded, the deleted submodules are removed.
Invoke(a) ==
    /\ term = "idle"
    /\ args' = a
    /\ UNCHANGED <<manifestFile, shadowFile, todo, idx, res, pre, startFile,
                   runs, prev>>
    /\ IF a.command = "generate"
       THEN \* no config_file argument: load_config returns at line 208,
            \* self.config stays None and line 252 returns
            /\ pc' = "command"
            /\ term' = "running"
            /\ UNCHANGED <<config, hidden, ev, wc>>
       ELSE IF ~Loaded(manifestFile)
       THEN \* "Configuration file not found", "Could not load": sys.exit(1)
            /\ pc' = "remove"
            /\ term' = "sysexit"
            /\ UNCHANGED <<config, hidden, ev, wc>>
       ELSE /\ config' = load_config(manifestFile)
            /\ hidden' = load_config(shadowFile)
            /\ \E failing \in 0..Len(hidden') :
                 LET r == remove_deleted_submodules(config', hidden', wc, failing)
                 IN /\ wc' = r.w
                    /\ ev' = r.log
                    /\ pc' = IF r.raised THEN "remove" ELSE "command"
                    /\ term' = IF r.raised THEN "exception" ELSE "running"

\* -------------------------------------------------------------- command_add
\* An add that never finds the path declared.
AlreadyDeclared_never(repos, path) == FALSE

\* Line 266: the path is already declared.
AlreadyDeclared(repos, path) == get_repositories(repos, path) # 0

command_add ==
    /\ pc = "command" /\ term = "running" /\ args.command = "add"
    /\ UNCHANGED <<shadowFile, args, hidden, todo, idx, res, startFile, runs, prev>>
    /\ IF AlreadyDeclared(load_config(manifestFile), args.path)
       THEN \* "Repository already exists": sys.exit(1)
            /\ term' = "sysexit"
            /\ config' = load_config(manifestFile)
            /\ UNCHANGED <<manifestFile, wc, pc, ev, pre>>
       ELSE IF manifestFile.kind = "nokey"
       THEN \* add_repository returns False and adds nothing (lines 121-123),
            \* get_repositories(path) is [], and clone calls [].get:
            \* AttributeError
            /\ term' = "exception"
            /\ config' = load_config(manifestFile)
            /\ UNCHANGED <<manifestFile, wc, pc, ev, pre>>
       ELSE \E x \in Environments(1) :
              LET added == add_repository(load_config(manifestFile), args.path,
                                          args.url, Branch, args.commit, 1)
                  repo_data == added[get_repositories(added, args.path)]
                  g == clone(G0(WcAt(wc, args.path)), repo_data,
                             args.git_clean, x)
                  u == update_repository_commit(added, args.path, g.out)
              IN /\ pre' = WcAt(wc, args.path)
                 /\ wc' = PutWc(wc, args.path, g.w)
                 /\ ev' = g.log
                 /\ IF g.raised \/ u.raised
                    THEN /\ term' = "exception"
                         /\ config' = added
                         /\ UNCHANGED <<manifestFile, pc>>
                    ELSE /\ config' = u.repos
                         /\ manifestFile' = save_config(config')
                         /\ pc' = "finish"
                         /\ term' = term

\* --------------------------------------------------------------- command_rm
command_rm ==
    /\ pc = "command" /\ term = "running" /\ args.command = "rm"
    /\ UNCHANGED <<shadowFile, args, hidden, todo, idx, res, startFile, runs, prev>>
    /\ IF get_repositories(load_config(manifestFile), args.path) = 0
       THEN \* "Repository not found": sys.exit(1)
            /\ term' = "sysexit"
            /\ config' = load_config(manifestFile)
            /\ UNCHANGED <<manifestFile, wc, pc, ev, pre>>
       ELSE \E fails \in BOOLEAN :
              LET repo_data == load_config(manifestFile)[
                                   get_repositories(load_config(manifestFile),
                                                    args.path)]
                  g == rm(G0(WcAt(wc, repo_data.path)), repo_data, fails, 1)
              IN /\ pre' = WcAt(wc, repo_data.path)
                 /\ wc' = PutWc(wc, repo_data.path, g.w)
                 /\ ev' = g.log
                 /\ IF g.raised
                    THEN /\ term' = "exception"
                         /\ config' = load_config(manifestFile)
                         /\ UNCHANGED <<manifestFile, pc>>
                    ELSE /\ config' = remove_repository(
                                          load_config(manifestFile), args.path)
                         /\ manifestFile' = save_config(config')
                         /\ pc' = "finish"
                         /\ term' = term

\* ----------------------------------------------------------- command_update
\* Lines 302-314: the descriptors to update.
command_update_select ==
    /\ pc = "command" /\ term = "running" /\ args.command = "update"
    /\ config' = load_config(manifestFile)
    /\ UNCHANGED <<manifestFile, shadowFile, wc, args, hidden, idx, res, ev,
                   pre, startFile, runs, prev>>
    /\ IF args.path # None /\ get_repositories(config', args.path) = 0
       THEN \* "Submodule not found": sys.exit(1)
            /\ term' = "sysexit"
            /\ UNCHANGED <<pc, todo>>
       ELSE /\ todo' = IF args.path # None
                       THEN <<get_repositories(config', args.path)>>
                       ELSE get_repositories_list(config')
            /\ pc' = IF Len(todo') = 0 THEN "finish" ELSE "update"
            /\ term' = term

\* The manifest in memory after the update of one descriptor returned commit.
AfterUpdate(repos, repo_data, commit) ==
    IF commit = None THEN [repos |-> repos, ret |-> FALSE, raised |-> FALSE]
    ELSE update_repository_commit(repos, repo_data.path, commit)

\* Lines 316-330: one turn of the loop.
command_update_step ==
    /\ pc = "update" /\ term = "running" /\ idx <= Len(todo)
    /\ UNCHANGED <<shadowFile, args, hidden, todo, startFile, runs, prev>>
    /\ \E x \in Environments(idx) :
         LET repo_data == config[todo[idx]]
             g == update(G0(WcAt(wc, repo_data.path)), repo_data, args.remote,
                         args.git_clean, args.ignore_local_changes, x)
         IN /\ pre' = WcAt(wc, repo_data.path)
            /\ wc' = PutWc(wc, repo_data.path, g.w)
            /\ ev' = g.log
            /\ IF g.raised \/ AfterUpdate(config, repo_data, g.out).raised
               THEN /\ term' = "exception"
                    /\ UNCHANGED <<manifestFile, config, pc, idx, res>>
               ELSE /\ config' = AfterUpdate(config, repo_data, g.out).repos
                    /\ manifestFile' = IF g.out = None THEN manifestFile
                                       ELSE save_config(config')
                    /\ res' = Append(res, g.out)
                    /\ idx' = idx + 1
                    /\ pc' = IF idx' > Len(todo) THEN "finish" ELSE "update"
                    /\ term' = term

\* --------------------------------------------------------- command_generate
\* A generate that lists the submodules last to first.
generate_reversed(submodules) ==
    [i \in 1..Len(submodules) |->
        [path |-> submodules[Len(submodules) + 1 - i].path,
         url |-> submodules[Len(submodules) + 1 - i].url,
         branch |-> submodules[Len(submodules) + 1 - i].branch_name,
         commit |-> submodules[Len(submodules) + 1 - i].hexsha,
         depth |-> 1]]

\* operations.generate, lines 200-208: the list that is dumped.
generate(submodules) ==
    [i \in 1..Len(submodules) |->
        [path |-> submodules[i].path,
         url |-> submodules[i].url,
         branch |-> submodules[i].branch_name,
         commit |-> submodules[i].hexsha,
         depth |-> 1]]

\* command_generate and the return of handle_submodule_operation: the output
\* file is by default the file the other commands take as the manifest;
\* git.Repo raises when the directory is not a repository; self.config and
\* self.hidden_config are None, so line 247 writes no hidden copy.
command_generate ==
    /\ pc = "command" /\ term = "running" /\ args.command = "generate"
    /\ UNCHANGED <<shadowFile, wc, args, config, hidden, todo, idx, res, ev,
                   pre, startFile, runs, prev>>
    /\ \E fails \in BOOLEAN :
         IF fails
         THEN /\ term' = "exception"
              /\ UNCHANGED <<manifestFile, pc>>
         ELSE /\ manifestFile' = File(generate(args.gitmodules))
              /\ pc' = "end"
              /\ term' = "ok"

\* ------------------------------------------------ the end of the run
\* The dump of data that has other keys only.
DumpOtherKeys == NoKeyFile

\* A backup that is not written.
SaveBackup_skipped(repos, old) == old

\* Lines 246-248: the manifest in memory is saved as the hidden copy.
SaveBackup(repos, old) == save_config(repos)

\* The data in memory has no key `repositories` when the file had none: no
\* command adds the key.
Finish ==
    /\ pc = "finish" /\ term = "running"
    /\ shadowFile' = IF startFile.kind = "nokey"
                     THEN DumpOtherKeys
                     ELSE SaveBackup(config, shadowFile)
    /\ pc' = "end"
    /\ term' = "ok"
    /\ UNCHANGED <<manifestFile, wc, args, config, hidden, todo, idx, res, ev,
                   pre, startFile, runs, prev>>

\* The process is killed between two steps of a run.
Kill ==
    /\ term = "running"
    /\ term' = "killed"
    /\ UNCHANGED <<manifestFile, shadowFile, wc, pc, args, config, hidden, todo,
                   idx, res, ev, pre, startFile, runs, prev>>

\* A run of add, update or rm.
NextStoreCommand ==
    \/ \E a \in AddArgs : Invoke(a)
    \/ \E a \in UpdateArgs : Invoke(a)
    \/ \E a \in RmArgs : Invoke(a)
    \/ command_add
    \/ command_rm
    \/ command_update_select
    \/ command_update_step
    \/ Finish
    \/ Kill

Next ==
    \/ NextStoreCommand
    \/ \E a \in GenerateArgs : Invoke(a)
    \/ command_generate

Spec == Init /\ [][Next]_vars

\* ------------------------------------------------- the last step of a run
InUpdate == args.command = "update" /\ pc \in {"update", "finish", "end"}

\* The position in todo of the descriptor the last turn of the loop took:
\* the turn that raised, or the last one that returned.
LastTurn == IF term = "exception" /\ pc = "update" THEN idx ELSE idx - 1

TurnTaken == InUpdate /\ LastTurn >= 1

\* The descriptor of that turn as the run found it in the manifest.
LastDescriptor == startFile.repos[todo[LastTurn]]

\* The same descriptor as the run loaded it.
LastLoaded == load_config(startFile)[todo[LastTurn]]

\* The url, branch and commit that the last step of an add or of an update
\* was given.
GivenDescriptor ==
    IF args.command = "add"
    THEN [url |-> args.url, path |-> args.path, branch |-> Branch,
          commit |-> args.commit]
    ELSE [url |-> LastLoaded.url, path |-> LastLoaded.path,
          branch |-> LastLoaded.branch, commit |-> LastLoaded.commit]

\* The commit that step returned (None: nothing, or it raised).
ReturnedCommit ==
    IF term = "exception" THEN None
    ELSE IF args.command = "add"
    THEN config[IndexOfPath(config, args.path)].commit
    ELSE res[LastTurn]

\* ------------------------------------------------------- several runs
\* The manifest file with the descriptor at position k deleted (0: as it is).
WithoutDescriptor(file, k) ==
    IF k = 0 THEN file
    ELSE File([i \in 1..(Len(file.repos) - 1) |->
                  IF i < k THEN file.repos[i] ELSE file.repos[i + 1]])

\* No outside failure in the last step and no prompt answered with no.
Undisturbed ==
    \A k \in 1..Len(ev) :
        /\ ~ev[k].fault
        /\ ev[k].op = "prompt" => ev[k].arg \in {"y", "yes"}

\* The run was the update, without remote and undisturbed, of one complete
\* descriptor whose working copy was a repository at the pinned commit with
\* its remote, and it ended with exit code 0.
ConvergedUpdate ==
    /\ args.command = "update" /\ term = "ok" /\ ~args.remote
    /\ Len(todo) = 1 /\ Len(res) = 1
    /\ Undisturbed
    /\ load_config(startFile)[todo[1]].url # None
    /\ load_config(startFile)[todo[1]].commit # None
    /\ pre = WC("Tracked", load_config(startFile)[todo[1]].commit,
                load_config(startFile)[todo[1]].url)

\* The run was an add, or the update of one descriptor, with git_clean; it
\* returned a commit and ended with exit code 0.
StrippedRun ==
    /\ term = "ok" /\ args.git_clean
    /\ \/ args.command = "add"
       \/ args.command = "update" /\ Len(todo) = 1 /\ Len(res) = 1
    /\ ReturnedCommit # None

\* What is kept of such runs for the next one: the path, the commit that
\* was pinned (for a converged update), what the operation returned, and
\* whether git_clean removed .git.
RunSummary ==
    IF ConvergedUpdate
    THEN [path |-> load_config(startFile)[todo[1]].path,
          pinned |-> load_config(startFile)[todo[1]].commit,
          out |-> res[1],
          stripped |-> StrippedRun,
          settled |-> FALSE, disturbed |-> FALSE]
    ELSE IF StrippedRun
    THEN [path |-> GivenDescriptor.path, pinned |-> None,
          out |-> ReturnedCommit, stripped |-> TRUE,
          settled |-> FALSE, disturbed |-> FALSE]
    ELSE NoPrev

\* A step of the command failed, or a prompt was answered with no.
Disturbed ==
    \E k \in 1..Len(ev) :
        \/ ~ev[k].ok
        \/ ev[k].op = "prompt" /\ ev[k].arg \notin {"y", "yes"}

\* The run is over; the user deletes a descriptor from the manifest file, or
\* leaves the file alone, and the tool is ready to be started again.
Again ==
    /\ term \in {"ok", "sysexit", "exception", "killed"}
    /\ runs < MaxRuns
    /\ runs' = runs + 1
    /\ \E k \in 0..Len(manifestFile.repos) :
         /\ manifestFile' = WithoutDescriptor(manifestFile, k)
         /\ prev' = [RunSummary EXCEPT
                        !.settled = (term = "ok" /\ k = 0),
                        !.disturbed = (term = "ok" /\ k = 0 /\ Disturbed)]
    /\ startFile' = manifestFile'
    /\ pc' = "idle"
    /\ term' = "idle"
    /\ args' = NoArgs
    /\ config' = <<>>
    /\ hidden' = <<>>
    /\ todo' = <<>>
    /\ idx' = 1
    /\ res' = <<>>
    /\ ev' = <<>>
    /\ pre' = AbsentWC
    /\ UNCHANGED <<shadowFile, wc>>

\* A first run on an empty manifest with nothing on disk, or on one
\* descriptor with p1 not on disk, on disk without .git, or a repository at
\* the pinned commit.
InitRuns ==
    /\ manifestFile \in {File(<<>>), File(<<Descriptor("p1", Url, "c1")>>)}
    /\ shadowFile = NoFile
    /\ wc \in {[p \in Paths |-> IF p = "p1" THEN w ELSE AbsentWC] : w \in InitWCs}
    /\ manifestFile = File(<<>>) => wc["p1"] = AbsentWC
    /\ pc = "idle"
    /\ term = "idle"
    /\ args = NoArgs
    /\ config = <<>>
    /\ hidden = <<>>
    /\ todo = <<>>
    /\ idx = 1
    /\ res = <<>>
    /\ ev = <<>>
    /\ pre = AbsentWC
    /\ startFile = manifestFile
    /\ runs = 1
    /\ prev = NoPrev

\* Runs of add, update and rm in succession.
NextRuns == NextStoreCommand \/ Again

SpecRuns == InitRuns /\ [][NextRuns]_vars

\* --------------------------------------------- the manifest store on its own
\* What a call of the store may be given: a path and a commit.
StoreArgs ==
    {[NoArgs EXCEPT !.command = "updateCommit", !.path = p, !.commit = c] :
        p \in Paths, c \in Commits}

\* A manifest was loaded from a file and update_repository_commit is about to
\* be called on it.
InitStore ==
    /\ manifestFile \in {File(m) : m \in InitManifests} \cup {NoKeyFile}
    /\ shadowFile = NoFile
    /\ wc = [p \in Paths |-> AbsentWC]
    /\ pc = "store"
    /\ term = "running"
    /\ args \in StoreArgs
    /\ config = load_config(manifestFile)
    /\ hidden = <<>>
    /\ todo = <<>>
    /\ idx = 1
    /\ res = <<>>
    /\ ev = <<>>
    /\ pre = AbsentWC
    /\ startFile = manifestFile
    /\ runs = 1
    /\ prev = NoPrev

\* update_repository_commit(args.path, args.commit), lines 90-108: data
\* without the key `repositories` gives False (lines 94-96). res gets what
\* the call returned; a call that raised returns nothing.
StoreUpdateCommit ==
    /\ pc = "store" /\ term = "running"
    /\ LET u == IF startFile.kind = "nokey"
                THEN [repos |-> config, ret |-> FALSE, raised |-> FALSE]
                ELSE update_repository_commit(config, args.path, args.commit)
       IN /\ config' = u.repos
          /\ res' = IF u.raised THEN <<>> ELSE <<u.ret>>
          /\ term' = IF u.raised THEN "exception" ELSE "ok"
    /\ pc' = "end"
    /\ UNCHANGED <<manifestFile, shadowFile, wc, args, hidden, todo, idx, ev,
                   pre, startFile, runs, prev>>

NextStore == StoreUpdateCommit

SpecStore == InitStore /\ [][NextStore]_vars

\* ------------------------------------------------ the `git` command family
\* src/src/git/commands.py (GitCommands), src/src/git/git_operations.py
\* (GitOperations) and src/src/common/config.py (GitConfigManager): clone and
\* update of the repositories of a manifest whose entries are found by name.

\* An entry of the manifest: a descriptor with the key `name` (None: the
\* entry has no such key, as the entries that `submodule add` writes).
GitRepo(name, p, u, c) ==
    [name |-> name, path |-> p, url |-> u, branch |-> Branch, commit |-> c,
     depth |-> 1]

\* Entries of a manifest: named and pinned ones, one that is not pinned and
\* has the name of another, one without name, one without path, one whose
\* url is a placeholder.
GitInitRepos ==
    {GitRepo("n1", "p1", Url, "c1"), GitRepo("n2", "p2", Url, "c1"),
     GitRepo("n1", "p2", Url, None), GitRepo(None, "p1", Url, None),
     GitRepo("n2", None, Url, "c1"), GitRepo("n1", "p1", PlaceholderSet, "c1")}

GitInitManifests ==
    {m \in SeqsUpTo(GitInitRepos, MaxRepos) : UniquePaths(m)}

\* GitConfigManager.load_config followed by get_repositories.
GitConfigManager_load_config(file) ==
    IF file.kind = "ok"
    THEN [i \in 1..Len(file.repos) |->
             [name |-> ResolveString(file.repos[i].name),
              path |-> ResolveString(file.repos[i].path),
              url |-> ResolveString(file.repos[i].url),
              branch |-> ResolveString(file.repos[i].branch),
              commit |-> ResolveString(file.repos[i].commit),
              depth |-> file.repos[i].depth]]
    ELSE <<>>

\* repo_data.get('name', 'UNKNOWN_REPO')
NameOf(repo_data) ==
    IF repo_data.name = None THEN "UNKNOWN_REPO" ELSE repo_data.name

IndexOfName(repos, repo_name) ==
    IF \E i \in 1..Len(repos) : repos[i].name = repo_name
    THEN CHOOSE i \in 1..Len(repos) :
             /\ repos[i].name = repo_name
             /\ \A j \in 1..(i - 1) : repos[j].name # repo_name
    ELSE 0

\* The first entry with the name gets the commit; no entry has it: a warning.
GitConfigManager_update_repository_commit(repos, repo_name, new_commit_hash) ==
    IF IndexOfName(repos, repo_name) = 0 THEN repos
    ELSE [repos EXCEPT ![IndexOfName(repos, repo_name)].commit = new_commit_hash]

\* yaml.safe_dump of config_data, the data with the placeholders replaced.
GitConfigManager_save_config(repos) == File(repos)

\* The positions of the entries to process: all of them, or those whose name
\* is one of --repository-names.
SelectByName(repos, names) ==
    LET wanted(i) == names = None \/ repos[i].name = names
    IN SelectSeq([i \in 1..Len(repos) |-> i], wanted)

GitOperations_get_current_commit_hash(g, x) ==
    IF g.raised THEN g
    ELSE IF ~_has_git(g.w) THEN [g EXCEPT !.out = None]
    ELSE LET r == _run_git_command(g, "rev-parse", "HEAD", x)
         IN IF r.raised THEN [r EXCEPT !.raised = FALSE, !.out = None] ELSE r

\* GitOperations.update: os.path.join raises TypeError for an entry without
\* path, before the try block; a directory without .git is not updated.
GitOperations_update(g, repo_data, remote, x) ==
    IF repo_data.path = None
    THEN [g EXCEPT !.raised = TRUE,
                   !.log = Append(@, Event("TypeError", None, FALSE, x.at))]
    ELSE IF ~_has_git(g.w) THEN [g EXCEPT !.out = None]
    ELSE LET resource == IF ~remote /\ repo_data.commit # None
                         THEN repo_data.commit ELSE repo_data.branch
             reset_resource == IF remote THEN OriginRef(resource) ELSE resource
         IN Caught(GitOperations_get_current_commit_hash(
                       _run_git_command(
                           _run_git_command(
                               _run_git_command(g, "fetch", resource, x),
                               "reset", reset_resource, x),
                           "clean", "-ffd", x),
                       x))

\* command_clone calls self.git_operations.clone, which GitOperations does
\* not define: AttributeError.
GitCommands_command_clone(g, repo_data, x) ==
    [g EXCEPT !.raised = TRUE,
              !.log = Append(@, Event("AttributeError", "clone", FALSE, x.at))]

GitCommands_command_update(g, repo_data, remote, x) ==
    GitOperations_update(g, repo_data, remote, x)

\* update_yaml after a command that returned a commit, with --update-yaml.
update_yaml(repos, repo_data, current_hash, flag) ==
    IF flag /\ current_hash # None
    THEN GitConfigManager_update_repository_commit(repos, NameOf(repo_data),
                                                   current_hash)
    ELSE repos

GitArgs ==
    {[NoArgs EXCEPT !.command = "git update", !.update_yaml = y, !.remote = r,
                    !.repository_names = n] :
        y \in BOOLEAN, r \in BOOLEAN, n \in {None, "n1"}}
      \cup {[NoArgs EXCEPT !.command = "git clone", !.update_yaml = y,
                           !.repository_names = n] :
               y \in BOOLEAN, n \in {None, "n1"}}

\* The git commands of one entry: fetch, reset, clean, rev-parse; one of
\* them fails from outside, or none.
GitEnvironments(at) ==
    {x \in Environments(at) : x.failAt <= 4 /\ x.resp = "y" /\ ~x.mkfail}

InitGit ==
    /\ manifestFile \in {File(m) : m \in GitInitManifests} \cup {NoFile, NoKeyFile}
    /\ shadowFile = NoFile
    /\ wc \in [Paths -> {AbsentWC, WC("Tracked", "c1", Url)}]
    /\ pc = "idle"
    /\ term = "idle"
    /\ args = NoArgs
    /\ config = <<>>
    /\ hidden = <<>>
    /\ todo = <<>>
    /\ idx = 1
    /\ res = <<>>
    /\ ev = <<>>
    /\ pre = AbsentWC
    /\ startFile = manifestFile
    /\ runs = 1
    /\ prev = NoPrev

\* handle_git_operation up to the loop: the file is loaded and the entries
\* to process are selected.
handle_git_operation(a) ==
    /\ pc = "idle" /\ term = "idle"
    /\ args' = a
    /\ UNCHANGED <<manifestFile, shadowFile, wc, hidden, idx, res, ev, pre,
                   startFile, runs, prev>>
    /\ IF ~Loaded(manifestFile)
       THEN \* "Configuration file not found", "Could not load": sys.exit(1)
            /\ term' = "sysexit"
            /\ pc' = "end"
            /\ UNCHANGED <<config, todo>>
       ELSE /\ config' = GitConfigManager_load_config(manifestFile)
            /\ todo' = SelectByName(config', a.repository_names)
            /\ IF todo' = <<>>
               THEN \* "No repositories found": sys.exit(0)
                    /\ term' = "ok"
                    /\ pc' = "end"
               ELSE /\ term' = "running"
                    /\ pc' = "git"

\* One turn of the loop: the command of the entry inside try/except
\* Exception, which logs the error.
handle_git_operation_turn ==
    /\ pc = "git" /\ term = "running" /\ idx <= Len(todo)
    /\ UNCHANGED <<manifestFile, shadowFile, args, hidden, todo, startFile,
                   runs, prev>>
    /\ \E x \in GitEnvironments(idx) :
         LET repo_data == config[todo[idx]]
             g0 == G0(WcAt(wc, repo_data.path))
             g == IF args.command = "git clone"
                  THEN GitCommands_command_clone(g0, repo_data, x)
                  ELSE GitCommands_command_update(g0, repo_data, args.remote, x)
             current_hash == IF g.raised THEN None ELSE g.out
         IN /\ pre' = WcAt(wc, repo_data.path)
            /\ wc' = PutWc(wc, repo_data.path, g.w)
            /\ ev' = g.log
            /\ res' = Append(res, current_hash)
            /\ config' = update_yaml(config, repo_data, current_hash,
                                     args.update_yaml)
            /\ idx' = idx + 1
            /\ UNCHANGED <<pc, term>>

\* After the loop: the file is saved when --update-yaml is given.
handle_git_operation_end ==
    /\ pc = "git" /\ term = "running" /\ idx > Len(todo)
    /\ manifestFile' = IF args.update_yaml
                       THEN GitConfigManager_save_config(config)
                       ELSE manifestFile
    /\ pc' = "end"
    /\ term' = "ok"
    /\ UNCHANGED <<shadowFile, wc, args, config, hidden, todo, idx, res, ev,
                   pre, startFile, runs, prev>>

NextGit ==
    \/ \E a \in GitArgs : handle_git_operation(a)
    \/ handle_git_operation_turn
    \/ handle_git_operation_end

SpecGit == InitGit /\ [][NextGit]_vars

\* ------------------------------------------------------------ observations
\* The commands that take the manifest file as an argument (config_file).
StoreCommands == {"add", "update", "rm"}

\* The run is over and the process gave an exit code.
Ended == term \in {"ok", "sysexit", "exception"}

\* 0 on return from the handler; 1 on sys.exit(1) and on an uncaught exception.
ExitCode == IF term = "ok" THEN 0 ELSE 1

\* The run got past load_config and the removal step.
PastRemoval == pc \in {"command", "update", "finish", "end"}

IsGit(e) == e.op \in GitOps

NoGitCommand == \A k \in 1..Len(ev) : ~IsGit(ev[k])

RmCount(path) ==
    Cardinality({k \in 1..Len(ev) : ev[k].op = "rm" /\ ev[k].arg = path})

\* ------------------------------------------------------------------ claims

\* C1 (as claimed): in a batch update, a failed git command of one descriptor
\* (in the clone, in the recreate of an Untracked directory, in the
\* fetch/reset/clean) makes update return nothing without raising, and the
\* loop moves on. The code runs the recreate outside its try block. (Stated
\* for descriptors that have url, path and commit.)
C1_GitFailureIsCaught ==
    (/\ TurnTaken
     /\ LastDescriptor.url # None
     /\ LastDescriptor.path # None
     /\ LastDescriptor.commit # None
     /\ \E k \in 1..Len(ev) : IsGit(ev[k]) /\ ~ev[k].ok)
        => /\ term # "exception"
           /\ idx = LastTurn + 1
           /\ res[LastTurn] = None

\* C2 (as claimed): for a descriptor without url or without path, update
\* returns nothing, issues no git command and does not raise, whatever the
\* working copy is. The code joins the missing path and raises, and for a
\* missing url it goes on to the git commands of an existing directory.
C2_InvalidDescriptorSkipped ==
    (TurnTaken /\ (LastDescriptor.url = None \/ LastDescriptor.path = None))
        => /\ term # "exception"
           /\ NoGitCommand
           /\ res[LastTurn] = None

\* C3 (as claimed): when the removal step is over, rm was called exactly once
\* for every path that is in the hidden copy and not in the manifest, and not
\* at all for the other paths. The code lets a failed rmtree end the run, and
\* the later entries get no removal. (Hidden copies whose descriptors all
\* have a path.)
C3_OneRemovalPerDeletedPath ==
    ((pc = "command" /\ term = "running") \/ (pc = "remove" /\ term = "exception"))
        => \A path \in Paths :
             RmCount(path) =
                 IF path \in PathsOf(hidden) \ PathsOf(config) THEN 1 ELSE 0

C6_RemoteWins ==
    (/\ TurnTaken /\ args.remote /\ term # "exception"
     /\ res[LastTurn] # None
     /\ LastDescriptor.commit # None)
        => \E k \in 1..Len(ev) :
             /\ ev[k].op = "reset"
             /\ ev[k].arg = OriginRef(LastDescriptor.branch)
             /\ \A j \in (k + 1)..Len(ev) : ev[j].op # "reset"

\* C7: an update of a Tracked working copy without ignore_local_changes
\* starts with the prompt; when the answer is not yes, nothing else happens
\* for the descriptor: no git command, no exception, no result, the working
\* copy and the manifest entry (as the file loads, and in memory) are as
\* before, and the loop has moved on.
C7_ConfirmationFirst ==
    (TurnTaken /\ pre.st = "Tracked" /\ ~args.ignore_local_changes)
        => /\ Len(ev) >= 1
           /\ ev[1].op = "prompt"
           /\ ev[1].arg \notin {"y", "yes"} =>
                 /\ Len(ev) = 1
                 /\ term # "exception"
                 /\ idx = LastTurn + 1
                 /\ res[LastTurn] = None
                 /\ wc[LastDescriptor.path] = pre
                 /\ load_config(manifestFile)[todo[LastTurn]] = LastLoaded
                 /\ config[todo[LastTurn]] = LastLoaded

\* C7 witness: the first of two descriptors was declined and the batch is at
\* the second.
C7_Witness ==
    /\ InUpdate /\ pc = "update" /\ term = "running"
    /\ Len(todo) = 2 /\ idx = 2
    /\ pre.st = "Tracked"
    /\ ev = <<Event("prompt", "n", TRUE, 1)>>

\* C8: rm of a path that is not in the manifest ends with exit code 1 and the
\* manifest file is as the run found it.
C8_RmUnknownPath ==
    (args.command = "rm" /\ Ended /\ args.path \notin PathsOf(startFile.repos))
        => /\ ExitCode = 1
           /\ manifestFile = startFile

\* C8 witness: rm ended in command_rm with sys.exit(1), on a manifest that
\* has another descriptor.
C8_Witness ==
    /\ args.command = "rm" /\ pc = "command" /\ term = "sysexit"
    /\ Len(startFile.repos) >= 1

\* C9: add of a path that is in the manifest ends with a non-zero exit code,
\* runs no git command, and the manifest file is as the run found it.
C9_AddDeclaredPath ==
    (args.command = "add" /\ Ended /\ args.path \in PathsOf(startFile.repos))
        => /\ ExitCode # 0
           /\ NoGitCommand
           /\ manifestFile = startFile

\* C9 witness: add ended in command_add with sys.exit(1).
C9_Witness ==
    /\ args.command = "add" /\ pc = "command" /\ term = "sysexit"
    /\ args.path \in PathsOf(startFile.repos)

\* C10: from a manifest with pairwise distinct paths, the paths of the
\* manifest, in the file and in memory, are pairwise distinct at every point
\* of every run of a sequence of add, update and rm.
C10_PathsStayUnique ==
    /\ UniquePaths(manifestFile.repos)
    /\ UniquePaths(config)

\* C10 witness: in a second run, an add to a manifest with a descriptor went
\* through.
C10_Witness ==
    /\ runs = 2
    /\ args.command = "add" /\ term = "ok"
    /\ Len(startFile.repos) >= 1
    /\ Len(manifestFile.repos) = Len(startFile.repos) + 1

\* ------------------------------------------------- claims C12 to C19
Placeholders == {PlaceholderSet, PlaceholderUnset}

HasPlaceholder(repos) ==
    \E i \in 1..Len(repos) :
        {repos[i].path, repos[i].url, repos[i].branch, repos[i].commit}
            \cap Placeholders # {}

AllOk == \A k \in 1..Len(ev) : ev[k].ok

RmtreeCount(path) ==
    Cardinality({k \in 1..Len(ev) : ev[k].op = "rmtree" /\ ev[k].arg = path})

\* The events of a clone of url pinned to commit that met no failure.
CloneEvents(url, commit, git_clean, at) ==
    <<Event("clone", url, TRUE, at), Event("fetch", commit, TRUE, at),
      Event("reset", commit, TRUE, at), Event("clean", "-ffd", TRUE, at),
      Event("rev-parse", "HEAD", TRUE, at)>>
        \o (IF git_clean THEN <<Event("remove .git", "", TRUE, at)>> ELSE <<>>)

C14_RemovalIdempotent ==
    [][(term = "idle" /\ Loaded(manifestFile)) =>
         \A path \in Paths \cup {AliasPath} :
            /\ RmCount(path)' <= 1
            /\ RmtreeCount(path)' <= RmCount(path)'
            /\ RmCount(path)' = 1 =>
                 /\ RmtreeCount(path)' =
                        IF _exist_repo(WcAt(wc, path)) THEN 1 ELSE 0
                 /\ ~_exist_repo(WcAt(wc, path)) =>
                      /\ WcAt(wc', path) = WcAt(wc, path)
                      /\ \A k \in 1..Len(ev') : ev'[k].arg = path => ev'[k].ok
                 /\ (_exist_repo(WcAt(wc, path)) /\ AllOk')
                        => WcAt(wc', path) = AbsentWC
            /\ (\A q \in Paths \cup {AliasPath} :
                    Dir(q) = Dir(path) => RmCount(q)' = 0)
                  => WcAt(wc', path) = WcAt(wc, path)
            /\ (term' = "running" /\ path \in PathsOf(hidden') \ PathsOf(config'))
                 => RmCount(path)' = 1]_vars

\* C14 witness: the removal step is over; the hidden copy had p1 and p2 and
\* the manifest neither; p1 was on disk and was deleted, p2 was not on disk
\* (as after an earlier run that deleted it) and rm did nothing for it.
C14_Witness ==
    /\ pc = "command" /\ term = "running"
    /\ ev = <<Event("rm", "p1", TRUE, 0), Event("rmtree", "p1", TRUE, 0),
              Event("rm", "p2", TRUE, 0)>>
    /\ wc["p1"] = AbsentWC /\ wc["p2"] = AbsentWC

\* C15 (as claimed): when the deletion of one working copy fails in the
\* removal step, the run goes on: no exception ends it, and the command is
\* reached. The code has no handler around rm, the exception ends the run.
C15_RemovalFailureSkipped ==
    (\E k \in 1..Len(ev) : ev[k].op = "rmtree" /\ ev[k].at = 0 /\ ~ev[k].ok)
        => /\ term # "exception"
           /\ PastRemoval

\* C16: a run on a manifest file that is missing or is not YAML takes one
\* step: it ends with sys.exit(1), with no removal and no git command, and
\* the working copies, the manifest file and the hidden copy are untouched.
C16_NoManifestIsFatal ==
    [][(startFile.kind \in {"missing", "corrupt"}
            /\ args'.command \in StoreCommands) =>
         /\ term' = "sysexit"
         /\ ExitCode' # 0
         /\ ev' = <<>>
         /\ wc' = wc
         /\ manifestFile' = manifestFile
         /\ shadowFile' = shadowFile]_vars

\* C16 witness: the run ended on a manifest that is not YAML, while the
\* hidden copy names p1 and p1 is on disk.
C16_Witness ==
    /\ term = "sysexit" /\ pc = "remove"
    /\ manifestFile = CorruptFile
    /\ "p1" \in PathsOf(load_config(shadowFile))
    /\ _exist_repo(wc["p1"])

\* C17: as long as the hidden copy on disk is missing or is not YAML (that
\* is, until the run writes it), a run that loaded its manifest has an empty
\* hidden manifest, has issued no removal, and was not ended in the removal
\* step: it is at the command or past it.
C17_NoShadowNoRemoval ==
    (term # "idle" /\ Loaded(startFile)
                   /\ shadowFile.kind \in {"missing", "corrupt"})
        => /\ hidden = <<>>
           /\ PastRemoval
           /\ \A k \in 1..Len(ev) : ev[k].at # 0

\* C17 witness: with a hidden copy that is not YAML, an update went through
\* for a descriptor and the run is about to write the hidden copy.
C17_Witness ==
    /\ shadowFile = CorruptFile
    /\ args.command = "update" /\ pc = "finish" /\ term = "running"
    /\ Len(res) >= 1 /\ res[1] # None

\* C18: update -p P with P not a path of the manifest ends with exit code 1,
\* no git command was issued, and the manifest file is as the run found it.
C18_UpdateUnknownPath ==
    (/\ args.command = "update" /\ Ended
     /\ args.path # None /\ args.path \notin PathsOf(startFile.repos))
        => /\ ExitCode = 1
           /\ NoGitCommand
           /\ todo = <<>>
           /\ manifestFile = startFile

\* C18 witness: update -p p1 ended in command_update with sys.exit(1) on a
\* manifest that declares another path.
C18_Witness ==
    /\ args.command = "update" /\ args.path = "p1"
    /\ pc = "command" /\ term = "sysexit"
    /\ Len(startFile.repos) >= 1

\* C19 (as claimed): after an update that ended with exit code 0, the
\* descriptors of the manifest file have the path, url, branch and depth they
\* had when the run began, in the same order. The code saves the strings
\* with the placeholders replaced by the values of the environment.
C19_UpdateChangesOnlyCommit ==
    (args.command = "update" /\ term = "ok")
        => /\ Len(manifestFile.repos) = Len(startFile.repos)
           /\ \A i \in 1..Len(startFile.repos) :
                /\ manifestFile.repos[i].path = startFile.repos[i].path
                /\ manifestFile.repos[i].url = startFile.repos[i].url
                /\ manifestFile.repos[i].branch = startFile.repos[i].branch
                /\ manifestFile.repos[i].depth = startFile.repos[i].depth

\* ------------------------------------------------- claims C11 and C20
\* The turn of this run and the run before it were both the update, without
\* remote, of the same complete descriptor; neither met an outside failure
\* or a declined prompt; the first of the two found the working copy a
\* repository at the pinned commit with its remote (ConvergedUpdate).
TwiceOnConverged ==
    /\ TurnTaken /\ Len(todo) = 1 /\ ~args.remote
    /\ LastLoaded.url # None /\ LastLoaded.path # None
    /\ LastLoaded.commit # None
    /\ Undisturbed
    /\ prev # NoPrev
    /\ prev.path = LastLoaded.path
    /\ prev.pinned = LastLoaded.commit

\* C11: of two updates in succession (remote not set, confirmation given or
\* not needed, no outside failure) of a descriptor whose working copy was at
\* the pinned commit before the first, both return the pinned commit, no
\* exception ends the second, and the commit stored in the manifest, in
\* memory and in the file, is the pinned commit as before; with git_clean in
\* either run or in none.
C11_UpdateTwiceSameCommit ==
    TwiceOnConverged =>
        /\ term # "exception"
        /\ prev.out = LastLoaded.commit
        /\ res[LastTurn] = LastLoaded.commit
        /\ config[todo[LastTurn]].commit = LastLoaded.commit
        /\ manifestFile.repos[todo[LastTurn]].commit = LastLoaded.commit

\* C11 witness: the second update has returned; the first removed .git after
\* it (git_clean), so the second found the directory without .git.
C11_Witness ==
    /\ TwiceOnConverged
    /\ pc = "finish" /\ term = "running"
    /\ pre = UntrackedWC
    /\ res = <<"c1">>

\* C20 (as claimed): when update is run again (remote not set, confirmation
\* given, no outside failure) for a complete descriptor and leaves the
\* working copy as it found it, so that any further run does the same, it
\* has returned the pinned commit and the working copy is a repository at
\* that commit. The code does not repair a repository without the remote
\* origin (git init done, git remote add not): the fetch fails on every run.
C20_RerunRepairs ==
    (/\ runs >= 2 /\ TurnTaken /\ ~args.remote /\ ~args.git_clean
     /\ LastLoaded.url # None /\ LastLoaded.path # None
     /\ LastLoaded.commit # None
     /\ Undisturbed
     /\ term # "killed"
     /\ wc[LastLoaded.path] = pre)
        => /\ term # "exception"
           /\ res[LastTurn] = LastLoaded.commit
           /\ wc[LastLoaded.path].st = "Tracked"
           /\ wc[LastLoaded.path].head = LastLoaded.commit

\* C22 (as claimed): a manifest file without the key `repositories` (other
\* keys only, an empty mapping, an empty document) loads as no descriptors and
\* a batch update of it, with no failure in the removal step, ends with exit
\* code 0. The code takes the None and the {} that yaml.safe_load gives for an
\* empty document and an empty mapping for a failed load and exits with 1.
C22_NoRepositoriesKeyIsNoError ==
    (/\ startFile.kind \in {"empty", "nokey"}
     /\ args.command = "update" /\ args.path = None
     /\ Ended
     /\ \A k \in 1..Len(ev) : ~ev[k].fault)
        => /\ config = <<>>
           /\ ExitCode = 0

\* C23 (as claimed): update_repository_commit(path, commit) on a loaded
\* manifest sets the commit of the first descriptor with that path and returns
\* True; when no descriptor has the path it returns False, raises nothing and
\* changes no descriptor. The code raises NameError in the second case.
C23_UpdateCommitReturns ==
    (pc = "end" /\ args.command = "updateCommit")
        => LET repos == load_config(startFile)
               i == IndexOfPath(repos, args.path)
           IN /\ term = "ok"
              /\ i # 0 => /\ res = <<TRUE>>
                          /\ config = [repos EXCEPT ![i].commit = args.commit]
              /\ i = 0 => /\ res = <<FALSE>>
                          /\ config = repos

\* C21: no step of a generate run removes a working copy, issues a git
\* command, loads a manifest or writes the hidden copy; the step that ends
\* the run with exit code 0 writes a file that has one descriptor for each
\* declared submodule, in the order of the declaration, with its path, url,
\* branch and commit and with depth 1; no other step writes the file.
C21_GenerateBypassesStore ==
    [][args'.command = "generate" =>
         /\ wc' = wc
         /\ shadowFile' = shadowFile
         /\ ev' = <<>>
         /\ config' = <<>> /\ hidden' = <<>>
         /\ IF term' = "ok"
            THEN /\ manifestFile'.kind = "ok"
                 /\ Len(manifestFile'.repos) = Len(args.gitmodules)
                 /\ \A i \in 1..Len(args.gitmodules) :
                       manifestFile'.repos[i] =
                           [path |-> args.gitmodules[i].path,
                            url |-> args.gitmodules[i].url,
                            branch |-> args.gitmodules[i].branch_name,
                            commit |-> args.gitmodules[i].hexsha,
                            depth |-> 1]
            ELSE manifestFile' = manifestFile]_vars

\* C21 witness: generate wrote two descriptors over a manifest that did not
\* declare p2, while the hidden copy names p2 and p2 is on disk: a run of
\* another command would have removed p2.
C21_Witness ==
    /\ args.command = "generate" /\ term = "ok"
    /\ Len(args.gitmodules) = 2
    /\ manifestFile.repos[1].path = "p2"
    /\ startFile.kind = "ok" /\ "p2" \notin PathsOf(startFile.repos)
    /\ "p2" \in PathsOf(load_config(shadowFile))
    /\ _exist_repo(wc["p2"])

\* C24: in a run of add, update or rm, a step in which the command issues a
\* prompt, a git command or a removal of its own, or writes the manifest
\* file, starts past the removal step, with nothing left of any directory
\* that the hidden copy names and the manifest does not, and has no removal
\* of the removal step in it.
C24_RemovalsBeforeOperation ==
    [][(/\ args'.command \in StoreCommands
        /\ \/ ev' # ev /\ \E k \in 1..Len(ev') : ev'[k].at >= 1
           \/ manifestFile' # manifestFile)
         => /\ pc \in {"command", "update"}
            /\ \A p \in PathsOf(hidden) :
                  (\A q \in PathsOf(load_config(startFile)) : Dir(q) # Dir(p))
                      => ~_exist_repo(WcAt(wc, p))
            /\ \A k \in 1..Len(ev') : ev'[k].at >= 1]_vars

\* C24 witness: add of p1 cloned it and wrote the manifest, in a run whose
\* hidden copy had p1 and p2 and whose manifest had neither.
C24_Witness ==
    /\ args.command = "add" /\ args.path = "p1" /\ pc = "finish"
    /\ PathsOf(hidden) = {"p1", "p2"}
    /\ load_config(startFile) = <<>>
    /\ Len(ev) >= 1 /\ ev[1].op = "clone" /\ ev[1].ok
    /\ manifestFile # startFile

\* C25: in an update without a path, the turn at position idx of the loop
\* takes the descriptor at position idx of the manifest; every prompt, git
\* command and removal of the step is of that turn; the step changes no
\* working copy but that descriptor's and no descriptor but that one, in
\* memory and in the manifest file; the commit it returned is in the file
\* when the step is over, and the next turn is idx + 1.
C25_BatchInManifestOrder ==
    [][(pc = "update" /\ args.path = None /\ term' # "killed") =>
         /\ todo[idx] = idx
         /\ \A k \in 1..Len(ev') : ev'[k].at = idx
         /\ \A p \in Paths : p # config[idx].path => wc'[p] = wc[p]
         /\ \A j \in 1..Len(config) :
               j # idx => /\ config'[j] = config[j]
                          /\ load_config(manifestFile')[j]
                                = load_config(manifestFile)[j]
         /\ term' = "running" =>
               /\ idx' = idx + 1
               /\ Len(res') = idx
               /\ res'[idx] # None =>
                     load_config(manifestFile')[idx].commit = res'[idx]]_vars

\* C25 witness: a batch of two is over, both descriptors got a commit, and
\* the second turn found p2 not on disk.
C25_Witness ==
    /\ InUpdate /\ args.path = None /\ pc = "finish"
    /\ Len(todo) = 2 /\ idx = 3
    /\ res[1] # None /\ res[2] # None
    /\ config[2].path = "p2"
    /\ pre = AbsentWC

\* C27: in the git commands of a step (a clone, an update, a recreate), every
\* reset comes right after a fetch that succeeded and, when it succeeds, is
\* followed at once by a clean; a fetch or a reset that fails is the last
\* command of the step; a clean comes only right after a reset that
\* succeeded.
C27_FetchResetClean ==
    \A k \in 1..Len(ev) :
        /\ ev[k].op = "reset" =>
              /\ k > 1 /\ ev[k - 1].op = "fetch" /\ ev[k - 1].ok
              /\ ev[k].ok => (k < Len(ev) /\ ev[k + 1].op = "clean")
        /\ (ev[k].op \in {"fetch", "reset"} /\ ~ev[k].ok) => k = Len(ev)
        /\ ev[k].op = "clean" =>
              (k > 1 /\ ev[k - 1].op = "reset" /\ ev[k - 1].ok)

\* C27 witness: an update of a directory without .git went through the
\* recreate with its fetch, reset and clean, and then the reset of the pin
\* failed after its fetch: no clean follows.
C27_Witness ==
    /\ TurnTaken /\ pre = UntrackedWC
    /\ Len(ev) = 8
    /\ ev[4].op = "fetch" /\ ev[5].op = "reset" /\ ev[6].op = "clean"
    /\ ev[6].ok
    /\ ev[7].op = "fetch" /\ ev[7].ok
    /\ ev[8].op = "reset" /\ ~ev[8].ok

\* C28: when the step of an add or of an update found a directory without
\* .git for a descriptor with url and path, its git commands start with
\* init, remote add origin <url>, checkout -b <branch>, fetch <commit>,
\* reset <commit>, clean, each issued only after the one before succeeded
\* and all before any other command; no git clone is among the commands;
\* and when the step returned a commit and git_clean is not set the working
\* copy is a repository.
C28_RecreateSequence ==
    (/\ pre = UntrackedWC /\ args.command \in {"add", "update"}
     /\ GivenDescriptor.url # None /\ GivenDescriptor.path # None)
        => LET d == GivenDescriptor
               expected == <<[op |-> "init", arg |-> ""],
                             [op |-> "remote add", arg |-> d.url],
                             [op |-> "checkout -b", arg |-> d.branch],
                             [op |-> "fetch", arg |-> d.commit],
                             [op |-> "reset", arg |-> d.commit],
                             [op |-> "clean", arg |-> "-ffd"]>>
           IN /\ Len(ev) >= 1
              /\ \A k \in 1..Len(ev) :
                    /\ k <= 6 => /\ ev[k].op = expected[k].op
                                 /\ ev[k].arg = expected[k].arg
                                 /\ ev[k].at >= 1
                    /\ (k <= 6 /\ ~ev[k].ok) => k = Len(ev)
                    /\ ev[k].op # "clone"
              /\ (ReturnedCommit # None) => Len(ev) > 6
              /\ (ReturnedCommit # None /\ ~args.git_clean)
                    => wc[d.path].st = "Tracked"

\* C28 witness: add of p1 with a commit found p1 without .git, ran the six
\* commands of the recreate, then the pin and rev-parse, and p1 is a
\* repository at that commit.
C28_Witness ==
    /\ args.command = "add" /\ args.path = "p1" /\ args.commit = "c1"
    /\ pc = "finish" /\ pre = UntrackedWC
    /\ Len(ev) = 10 /\ ev[10].op = "rev-parse"
    /\ wc["p1"] = WC("Tracked", "c1", Url)

\* C26: when a turn of an update with remote not set returned a commit for a
\* descriptor with commit C, whatever its branch, the returned commit is C;
\* the last fetch of the step fetched C and the reset after it, the last of
\* the step, reset to C; and the working copy, unless git_clean removed its
\* .git, is a repository with HEAD at C.
C26_PinnedCommitWins ==
    (/\ TurnTaken /\ ~args.remote /\ term # "exception"
     /\ LastLoaded.commit # None
     /\ res[LastTurn] # None)
        => /\ res[LastTurn] = LastLoaded.commit
           /\ \E k \in 1..(Len(ev) - 1) :
                 /\ ev[k].op = "fetch" /\ ev[k].arg = LastLoaded.commit
                 /\ ev[k].ok
                 /\ ev[k + 1].op = "reset" /\ ev[k + 1].arg = LastLoaded.commit
                 /\ ev[k + 1].ok
                 /\ \A j \in (k + 2)..Len(ev) : ev[j].op \notin {"fetch", "reset"}
           /\ ~args.git_clean =>
                 /\ wc[LastLoaded.path].st = "Tracked"
                 /\ wc[LastLoaded.path].head = LastLoaded.commit

\* C26 witness: an update without remote returned c1 for a descriptor whose
\* branch is not a branch of the remote; the step found a directory without
\* .git and left a repository at c1.
C26_Witness ==
    /\ TurnTaken /\ ~args.remote /\ ~args.git_clean /\ term = "running"
    /\ LastLoaded.branch = OtherBranch
    /\ LastLoaded.commit = "c1"
    /\ res[LastTurn] = "c1"
    /\ pre = UntrackedWC
    /\ wc["p1"] = WC("Tracked", "c1", Url)

\* C30 (as claimed): in an update without a path, when the parent directory
\* of a working copy that is not on disk cannot be made, update returns
\* nothing for that descriptor, raises nothing, and the loop goes on to the
\* next descriptor. The code calls os.makedirs outside the try block of
\* clone, so the OSError ends the run.
C30_MakedirsFailureSkipped ==
    (/\ TurnTaken /\ args.path = None
     /\ \E k \in 1..Len(ev) : ev[k].op = "makedirs" /\ ~ev[k].ok)
        => /\ term # "exception"
           /\ idx = LastTurn + 1
           /\ res[LastTurn] = None

C31_RmRemovesOneDescriptor ==
    (args.command = "rm" /\ term = "ok")
        => /\ ~_exist_repo(WcAt(wc, args.path))
           /\ manifestFile = File(SelectSeqNotPath(startFile.repos, args.path))
           /\ shadowFile = File(SelectSeqNotPath(startFile.repos, args.path))

\* C32 (as claimed): an add of a path that is not declared, in which no
\* step failed, ends with exit code 0 also on a manifest without the key
\* `repositories`; and after an add that ended with exit code 0 the manifest
\* file holds the descriptors the run found, as they were and in their
\* order, followed by one descriptor with the path, url, branch and depth of
\* the command line. The code raises AttributeError on a manifest without the
\* key, and writes the other descriptors with their placeholders replaced.
C32_AddAppendsOneDescriptor ==
    /\ (/\ args.command = "add" /\ Ended
        /\ startFile.kind \in {"ok", "nokey"}
        /\ IndexOfPath(load_config(startFile), args.path) = 0
        /\ \A k \in 1..Len(ev) : ev[k].ok)
          => term = "ok"
    /\ (args.command = "add" /\ term = "ok")
          => /\ manifestFile.kind = "ok"
             /\ Len(manifestFile.repos) = Len(startFile.repos) + 1
             /\ \A i \in 1..Len(startFile.repos) :
                   /\ manifestFile.repos[i].path = startFile.repos[i].path
                   /\ manifestFile.repos[i].url = startFile.repos[i].url
                   /\ manifestFile.repos[i].branch = startFile.repos[i].branch
                   /\ manifestFile.repos[i].depth = startFile.repos[i].depth
             /\ LET d == manifestFile.repos[Len(manifestFile.repos)]
                IN /\ d.path = args.path /\ d.url = args.url
                   /\ d.branch = Branch /\ d.depth = 1

\* C33 (as claimed): when the clone of an add returned nothing, the
\* descriptor is saved with the commit of the command line; when a turn of an
\* update returned nothing, the descriptor has in the file the commit the
\* run loaded. The code stores what clone returned, also when it is None.
C33_CommitKeptOnFailure ==
    /\ (/\ args.command = "add" /\ pc \in {"finish", "end"}
        /\ \E k \in 1..Len(ev) : IsGit(ev[k]) /\ ~ev[k].ok)
          => manifestFile.repos[Len(manifestFile.repos)].commit = args.commit
    /\ (TurnTaken /\ term # "exception")
          => \A i \in 1..Len(res) :
                res[i] = None =>
                    load_config(manifestFile)[todo[i]].commit
                        = load_config(startFile)[todo[i]].commit

\* C34 (as claimed): in an update without ignore_local_changes, a turn on a
\* directory that exists, with or without .git, in which `reset --hard` or
\* `clean -ffd` ran, started with the prompt and the answer was yes. The code
\* prompts only when the directory has .git.
C34_ConfirmationBeforeOverwrite ==
    (/\ TurnTaken /\ ~args.ignore_local_changes
     /\ _exist_repo(pre)
     /\ \E k \in 1..Len(ev) : ev[k].op \in {"reset", "clean"} /\ ev[k].ok)
        => /\ ev[1].op = "prompt"
           /\ ev[1].arg \in {"y", "yes"}

\* C35 (as claimed): the removal step deletes no directory that a descriptor
\* of the manifest it loaded names, whatever the spelling of the paths. The
\* code compares the path strings.
C35_NoRemovalOfDeclared ==
    \A k \in 1..Len(ev) :
        (ev[k].op = "rmtree" /\ ev[k].at = 0 /\ ev[k].ok)
            => \A i \in 1..Len(config) : Dir(config[i].path) # Dir(ev[k].arg)

\* C37 (as claimed): after a turn of an update on a Tracked working copy that
\* returned a commit, for a descriptor with a url, the remote `origin` of the
\* working copy, from which the turn fetched, is the url of the descriptor.
\* The code never sets the url of an existing remote.
C37_FetchedFromDeclaredUrl ==
    (/\ TurnTaken /\ term # "exception"
     /\ pre.st = "Tracked"
     /\ res[LastTurn] # None
     /\ ~args.git_clean
     /\ LastLoaded.url # None)
        => WcAt(wc, LastLoaded.path).origin = LastLoaded.url

C38_LegacyWritesOnFlag ==
    /\ (~args.update_yaml \/ pc # "end") => manifestFile = startFile
    /\ term # "exception"
    /\ (pc = "end" /\ term = "ok") => Len(res) = Len(todo)
    /\ (pc = "end" /\ term = "ok" /\ args.update_yaml) =>
          \A i \in 1..Len(res) :
              res[i] # None => manifestFile.repos[todo[i]].commit = res[i]

====
